---------------------------- MODULE Spec2Model ----------------------------
(***************************************************************************)
(* Model of the stream-deck-plus-audiovis plugin: the AudioEngine (tick    *)
(* loop, consumer registry, gain/theme, per-tick band processing and dirty *)
(* detection) and the WasapiAudioSource capture-process lifecycle.         *)
(*                                                                         *)
(* Numbers.  Band values, gains and peaks are IEEE floats in the source.   *)
(* Here they are fixed-point integers: the integer n stands for n / Scale, *)
(* and a product or quotient is rounded towards minus infinity.            *)
(*                                                                         *)
(* Indices are 0-based as in the source (functions over 0..n-1).           *)
(***************************************************************************)
EXTENDS Integers, Sequences, FiniteSets, TLC

\* ------------------------------------------------------------------------
\* Number representation
\* ------------------------------------------------------------------------

\* The integer that stands for 1.0.
Scale == 10000

Max(a, b) == IF a >= b THEN a ELSE b
Min(a, b) == IF a <= b THEN a ELSE b
Abs(a) == IF a >= 0 THEN a ELSE 0 - a

\* Fixed-point product of two scaled numbers: (a * b) \div Scale, computed
\* on the quotient and the remainder of a so that the product stays in range.
Mul(a, b) == (a \div Scale) * b + ((a % Scale) * b) \div Scale

\* The peak estimate moves by a thousandth of its distance per tick, so it is
\* kept in finer units: Fine of them make one unit of a band value.
Fine == 10000

\* ------------------------------------------------------------------------
\* Program constants (audio-engine.ts)
\* ------------------------------------------------------------------------

TOTAL_BINS == 20
BARS_PER_DIAL == 5
\* 0.015
DIRTY_THRESHOLD == 150
\* 0.75, 0.75
SMOOTH_ATTACK == 7500
SMOOTH_DECAY == 7500
\* the decay branch snaps values below 0.01 to 0
SNAP_EPSILON == 100
\* 0.03, 0.001, 0.08, 1.5
AUTO_GAIN_ATTACK == 300
AUTO_GAIN_DECAY == 10
AUTO_GAIN_MIN_PEAK == 800
AUTO_GAIN_MAX_BOOST == 15000
SPECTRAL_SMOOTH_PASSES == 1
\* adjustGain clamps to [0.2, 3.0]; the field starts at 1.0
GAIN_MIN == 2000
GAIN_MAX == 30000
GAIN_INIT == 10000
\* lastLeftEdge / lastRightEdge of a fresh registration: -1
EDGE_SENTINEL == 0 - Scale
\* the last dial column (reg.column < 3 decides the right edge)
LAST_COLUMN == 3
\* wasapi-source: the analysis window W and the hop H (FFT_SIZE >> 1); a
\* sample is 4 bytes of the chunk
FFT_SIZE == 2048
HOP_SIZE == 1024
SAMPLE_BYTES == 4
\* renderer: the size in pixels of one dial's strip
STRIP_WIDTH == 200
STRIP_HEIGHT == 100
\* THEME_NAMES = Object.keys(THEMES)
THEME_NAMES == <<"neon", "classic", "ocean", "fire", "purple">>

Bins == 0 .. (TOTAL_BINS - 1)
Bars == 0 .. (BARS_PER_DIAL - 1)
Columns == 0 .. LAST_COLUMN

\* new Float32Array(n): all zero
ZeroBins == [i \in Bins |-> 0]
ZeroSlice == [b \in Bars |-> 0]

\* ------------------------------------------------------------------------
\* tick(): band processing (pure part)
\* ------------------------------------------------------------------------

\* let framePeak = 0; for i: if (rawBins[i] > framePeak) framePeak = rawBins[i]
RECURSIVE framePeakFrom(_, _, _)
framePeakFrom(rawBins, i, acc) ==
    IF i >= TOTAL_BINS THEN acc
    ELSE framePeakFrom(rawBins, i + 1, IF rawBins[i] > acc THEN rawBins[i] ELSE acc)

framePeak(rawBins) == framePeakFrom(rawBins, 0, 0)

\* Variant: the estimate rises to a higher frame peak and never falls.
trackPeakNoDecay(autoGainPeak, fp) ==
    IF fp * Fine > autoGainPeak
    THEN autoGainPeak + Mul(fp * Fine - autoGainPeak, AUTO_GAIN_ATTACK)
    ELSE autoGainPeak

\* Asymmetric tracking of the peak, then the floor at AUTO_GAIN_MIN_PEAK.
\* autoGainPeak is in fine units, the frame peak fp in band-value units.
trackPeak(autoGainPeak, fp) ==
    LET moved == IF fp * Fine > autoGainPeak
                 THEN autoGainPeak + Mul(fp * Fine - autoGainPeak, AUTO_GAIN_ATTACK)
                 ELSE autoGainPeak
                      - Mul(autoGainPeak - Max(fp, AUTO_GAIN_MIN_PEAK) * Fine,
                            AUTO_GAIN_DECAY)
    IN Max(moved, AUTO_GAIN_MIN_PEAK * Fine)

\* const autoBoost = Math.min(AUTO_GAIN_MAX_BOOST, 1.0 / this.autoGainPeak)
\* The reciprocal is taken at the resolution of the band values.
autoBoost(autoGainPeak) ==
    Min(AUTO_GAIN_MAX_BOOST, (Scale * Scale) \div (autoGainPeak \div Fine))

\* Variant: the product is not clamped to 1.
applyGainUnclamped(rawBins, gain, boost) ==
    [i \in Bins |-> Mul(Mul(rawBins[i], gain), boost)]

\* rawBins[i] = Math.min(1, rawBins[i] * this.gain * autoBoost)
applyGain(rawBins, gain, boost) ==
    [i \in Bins |-> Min(Scale, Mul(Mul(rawBins[i], gain), boost))]

\* One pass of the 3-tap average; the two end bins are left as they are.
spectralPass(bins) ==
    [i \in Bins |->
        IF i >= 1 /\ i < TOTAL_BINS - 1
        THEN (bins[i - 1] + 2 * bins[i] + bins[i + 1]) \div 4
        ELSE bins[i]]

RECURSIVE spectralSmooth(_, _)
spectralSmooth(bins, pass) ==
    IF pass >= SPECTRAL_SMOOTH_PASSES THEN bins
    ELSE spectralSmooth(spectralPass(bins), pass + 1)

\* The attack branch of the temporal smoothing of one band.
attack(s, r) == s + Mul(r - s, SMOOTH_ATTACK)

\* Variant: the decayed value is never set to zero.
decayNoSnap(s) == Mul(s, SMOOTH_DECAY)

\* The decay branch of the temporal smoothing of one band.
decay(s) ==
    LET d == Mul(s, SMOOTH_DECAY)
    IN IF d < SNAP_EPSILON THEN 0 ELSE d

\* Variant: the decay branch stops at the raw value.
temporalSmoothDownToRaw(smoothedBins, rawBins) ==
    [i \in Bins |->
        IF rawBins[i] > smoothedBins[i]
        THEN attack(smoothedBins[i], rawBins[i])
        ELSE Max(rawBins[i], decay(smoothedBins[i]))]

\* The temporal smoothing of the tick: every band rises by the attack
\* branch or falls by the decay branch.
temporalSmooth(smoothedBins, rawBins) ==
    [i \in Bins |->
        IF rawBins[i] > smoothedBins[i]
        THEN attack(smoothedBins[i], rawBins[i])
        ELSE decay(smoothedBins[i])]

\* ------------------------------------------------------------------------
\* tick(): per-consumer slice, edges and dirty detection (pure part)
\* ------------------------------------------------------------------------

\* Variant: the last-sent edges start at 0.
newRegistrationZeroEdges(actionId, column) ==
    [id |-> actionId, column |-> column, lastSent |-> ZeroSlice,
     lastLeftEdge |-> 0, lastRightEdge |-> 0]

\* A fresh RegisteredAction (registerAction's object literal).
newRegistration(actionId, column) ==
    [id |-> actionId, column |-> column, lastSent |-> ZeroSlice,
     lastLeftEdge |-> EDGE_SENTINEL, lastRightEdge |-> EDGE_SENTINEL]

\* this.dialSlice[b] = this.smoothedBins[startBin + b]
dialSlice(smoothedBins, column) ==
    [b \in Bars |-> smoothedBins[column * BARS_PER_DIAL + b]]

\* reg.column > 0 ? (smoothedBins[startBin - 1] + smoothedBins[startBin]) * 0.5 : 0
leftEdge(smoothedBins, column) ==
    LET startBin == column * BARS_PER_DIAL
    IN IF column > 0
       THEN (smoothedBins[startBin - 1] + smoothedBins[startBin]) \div 2
       ELSE 0

\* Variant: the right edge is the consumer's own last band, not the mean
\* across the boundary.
rightEdgeOwnBand(smoothedBins, column) ==
    LET startBin == column * BARS_PER_DIAL
    IN IF column < LAST_COLUMN
       THEN smoothedBins[startBin + BARS_PER_DIAL - 1]
       ELSE 0

\* reg.column < 3 ? (smoothedBins[startBin + 4] + smoothedBins[startBin + 5]) * 0.5 : 0
rightEdge(smoothedBins, column) ==
    LET startBin == column * BARS_PER_DIAL
    IN IF column < LAST_COLUMN
       THEN (smoothedBins[startBin + BARS_PER_DIAL - 1]
             + smoothedBins[startBin + BARS_PER_DIAL]) \div 2
       ELSE 0

\* Variant: a move of exactly the threshold counts as a change.
exceedsOrEqual(a, b) == Abs(a - b) >= DIRTY_THRESHOLD

\* Math.abs(a - b) > DIRTY_THRESHOLD
exceeds(a, b) == Abs(a - b) > DIRTY_THRESHOLD

\* Variant: no change detection, every consumer is rendered on every tick.
isDirtyAlways(reg, slice, le, re) == TRUE

\* Variant: only the bands are compared, not the edges.
isDirtyBandsOnly(reg, slice, le, re) ==
    \E b \in Bars : exceeds(slice[b], reg.lastSent[b])

\* The band loop with its break, then the edge test, of the dirty detection.
isDirty(reg, slice, le, re) ==
    LET bandsDirty == \E b \in Bars : exceeds(slice[b], reg.lastSent[b])
    IN IF bandsDirty THEN TRUE
       ELSE exceeds(le, reg.lastLeftEdge) \/ exceeds(re, reg.lastRightEdge)

\* Variant: the try/catch is around the whole loop, an error leaves it.
loopStopsOnError(threw) == ~threw

\* The catch block of the per-consumer try: the error is logged and the for
\* loop goes on with the next consumer.
loopContinues(threw) == TRUE

\* Variant: the last-sent values are stored after the image was delivered,
\* so not when the consumer rejects it.
consumerStepStoresAfterSend(reg, smoothedBins, theme, rejects) ==
    LET slice == dialSlice(smoothedBins, reg.column)
        le == leftEdge(smoothedBins, reg.column)
        re == rightEdge(smoothedBins, reg.column)
    IN IF ~isDirty(reg, slice, le, re)
       THEN [reg |-> reg, calls |-> <<>>, threw |-> FALSE]
       ELSE [reg |-> IF reg.id \in rejects THEN reg
                     ELSE [reg EXCEPT !.lastSent = slice,
                                      !.lastLeftEdge = le,
                                      !.lastRightEdge = re],
             calls |-> << [id |-> reg.id, bins |-> slice, leftEdge |-> le,
                           rightEdge |-> re, theme |-> theme,
                           accepted |-> reg.id \notin rejects] >>,
             threw |-> reg.id \in rejects]

\* Variant: the last-sent values are stored whether or not the consumer is
\* dirty.
consumerStepStoresAlways(reg, smoothedBins, theme, rejects) ==
    LET slice == dialSlice(smoothedBins, reg.column)
        le == leftEdge(smoothedBins, reg.column)
        re == rightEdge(smoothedBins, reg.column)
        stored == [reg EXCEPT !.lastSent = slice,
                              !.lastLeftEdge = le,
                              !.lastRightEdge = re]
    IN IF ~isDirty(reg, slice, le, re)
       THEN [reg |-> stored, calls |-> <<>>, threw |-> FALSE]
       ELSE [reg |-> stored,
             calls |-> << [id |-> reg.id, bins |-> slice, leftEdge |-> le,
                           rightEdge |-> re, theme |-> theme,
                           accepted |-> reg.id \notin rejects] >>,
             threw |-> reg.id \in rejects]

\* The body of the for loop for one consumer.  rejects: the consumers whose
\* setFeedback throws in this tick.  Result: the registration after the body,
\* the render calls made (none or one) and whether the body threw.
consumerStep(reg, smoothedBins, theme, rejects) ==
    LET slice == dialSlice(smoothedBins, reg.column)
        le == leftEdge(smoothedBins, reg.column)
        re == rightEdge(smoothedBins, reg.column)
    IN IF ~isDirty(reg, slice, le, re)
       THEN [reg |-> reg, calls |-> <<>>, threw |-> FALSE]
       ELSE [reg |-> [reg EXCEPT !.lastSent = slice,
                                 !.lastLeftEdge = le,
                                 !.lastRightEdge = re],
             calls |-> << [id |-> reg.id, bins |-> slice, leftEdge |-> le,
                           rightEdge |-> re, theme |-> theme,
                           accepted |-> reg.id \notin rejects] >>,
             threw |-> reg.id \in rejects]

\* for (const [, reg] of this.actions) { try { ... } catch { ... } }
\* Result: the registrations after the loop, the render calls in order, and
\* whether the loop ran to its end (an exception that leaves the loop also
\* leaves tick()).
RECURSIVE consumerLoop(_, _, _, _, _, _)
consumerLoop(regs, i, smoothedBins, theme, rejects, calls) ==
    IF i > Len(regs) THEN [actions |-> regs, calls |-> calls, completed |-> TRUE]
    ELSE LET r == consumerStep(regs[i], smoothedBins, theme, rejects)
             regs2 == [regs EXCEPT ![i] = r.reg]
         IN IF r.threw /\ ~loopContinues(r.threw)
            THEN [actions |-> regs2, calls |-> calls \o r.calls, completed |-> FALSE]
            ELSE consumerLoop(regs2, i + 1, smoothedBins, theme, rejects,
                              calls \o r.calls)

\* ------------------------------------------------------------------------
\* Renderer: control points, tangents and curve of renderVisualizerFrame
\* ------------------------------------------------------------------------

\* Horizontal positions are kept in tenths of a pixel (the control points of
\* five bars lie at multiples of 19.9), slopes and tangents in tenths of a
\* band unit per pixel: the slope s stands for s / (Scale * Tenth).
Tenth == 10

\* Math.max(0, Math.min(1, v))
clamp01(v) == Max(0, Min(Scale, v))

\* cpX: 0, ((i + 0.5) / numBars) * (STRIP_WIDTH - 1) for each bar, STRIP_WIDTH - 1
controlX(numBars) ==
    [k \in 0 .. (numBars + 1) |->
        IF k = 0 THEN 0
        ELSE IF k = numBars + 1 THEN (STRIP_WIDTH - 1) * Tenth
        ELSE ((2 * (k - 1) + 1) * (STRIP_WIDTH - 1) * Tenth) \div (2 * numBars)]

\* cpY: the clamped left edge, the clamped bars, the clamped right edge
controlY(bins, numBars, le, re) ==
    [k \in 0 .. (numBars + 1) |->
        IF k = 0 THEN clamp01(le)
        ELSE IF k = numBars + 1 THEN clamp01(re)
        ELSE clamp01(bins[k - 1])]

\* precomputeTangents: cpSlopes[k] = (cpY[k+1] - cpY[k]) / (cpX[k+1] - cpX[k])
slopes(n, cpX, cpY) ==
    [k \in 0 .. (n - 2) |->
        ((cpY[k + 1] - cpY[k]) * Tenth * Tenth) \div (cpX[k + 1] - cpX[k])]

\* precomputeTangents(n): the end tangents are the end slopes; an inner
\* tangent is 0 where the slopes change sign or one is 0, else their mean.
precomputeTangents(n, cpX, cpY) ==
    LET cpSlopes == slopes(n, cpX, cpY)
    IN [k \in 0 .. (n - 1) |->
           IF k = 0 THEN cpSlopes[0]
           ELSE IF k = n - 1 THEN cpSlopes[n - 2]
           ELSE IF cpSlopes[k - 1] * cpSlopes[k] <= 0 THEN 0
           ELSE (cpSlopes[k - 1] + cpSlopes[k]) \div 2]

\* evalCurve: the binary search for the segment of x.
RECURSIVE segmentOf(_, _, _, _)
segmentOf(cpX, lo, hi, x) ==
    IF lo < hi
    THEN LET mid == (lo + hi) \div 2
         IN IF cpX[mid + 1] < x THEN segmentOf(cpX, mid + 1, hi, x)
            ELSE segmentOf(cpX, lo, mid, x)
    ELSE lo

\* evalCurve(n, x): the cubic Hermite value at x (in tenths of a pixel).
evalCurve(n, cpX, cpY, cpTangents, x) ==
    IF n = 0 THEN 0
    ELSE IF x <= cpX[0] THEN cpY[0]
    ELSE IF x >= cpX[n - 1] THEN cpY[n - 1]
    ELSE LET i == segmentOf(cpX, 0, n - 2, x)
             h == cpX[i + 1] - cpX[i]
         IN IF h = 0 THEN cpY[i]
            ELSE LET t == ((x - cpX[i]) * Scale) \div h
                     t2 == Mul(t, t)
                     t3 == Mul(t2, t)
                     hm0 == (h * cpTangents[i]) \div (Tenth * Tenth)
                     hm1 == (h * cpTangents[i + 1]) \div (Tenth * Tenth)
                 IN Mul(2 * t3 - 3 * t2 + Scale, cpY[i])
                    + Mul(t3 - 2 * t2 + t, hm0)
                    + Mul(3 * t2 - 2 * t3, cpY[i + 1])
                    + Mul(t3 - t2, hm1)

\* renderVisualizerFrame up to the curve heights: the control points, their
\* tangents, and for each pixel column the clamped curve value times maxH.
curveOf(bins, numBars, le, re) ==
    LET n == numBars + 2
        cpX == controlX(numBars)
        cpY == controlY(bins, numBars, le, re)
        cpTangents == precomputeTangents(n, cpX, cpY)
        maxH == STRIP_HEIGHT - 4
    IN [rendered |-> TRUE, cpX |-> cpX, cpY |-> cpY, cpTangents |-> cpTangents,
        curveHeights |->
            [x \in 0 .. (STRIP_WIDTH - 1) |->
                clamp01(evalCurve(n, cpX, cpY, cpTangents, x * Tenth)) * maxH]]

\* ------------------------------------------------------------------------
\* PNG encoder: CRC-32, chunk assembly and base64 of encodePNGToDataURI
\* ------------------------------------------------------------------------

\* A Uint32 value as its two 16-bit halves.
Half == 65536
word(hi, lo) == [hi |-> hi, lo |-> lo]

\* a ^ b on n-bit values.
RECURSIVE xorBits(_, _, _)
xorBits(a, b, n) ==
    IF n = 0 THEN 0
    ELSE ((a + b) % 2) + 2 * xorBits(a \div 2, b \div 2, n - 1)

xor32(w, v) == word(xorBits(w.hi, v.hi, 16), xorBits(w.lo, v.lo, 16))

\* w >>> k, for k up to 16.
shr32(w, k) ==
    word(w.hi \div (2 ^ k), (w.hi % (2 ^ k)) * (Half \div (2 ^ k)) + w.lo \div (2 ^ k))

\* 0xedb88320 and 0xffffffff
CRC_POLY == word(60856, 33568)
ALL_ONES == word(Half - 1, Half - 1)

\* c = c & 1 ? 0xedb88320 ^ (c >>> 1) : c >>> 1, k times
RECURSIVE crcShift(_, _)
crcShift(c, k) ==
    IF k = 0 THEN c
    ELSE crcShift(IF c.lo % 2 = 1 THEN xor32(CRC_POLY, shr32(c, 1)) ELSE shr32(c, 1),
                  k - 1)

crcTable(n) == crcShift(word(0, n), 8)

\* crc = crcTable[(crc ^ buf[i]) & 0xff] ^ (crc >>> 8), for i from i to end - 1
RECURSIVE crcFrom(_, _, _, _)
crcFrom(buf, i, end, crc) ==
    IF i >= end THEN crc
    ELSE LET next == xor32(crcTable(xorBits(crc.lo % 256, buf[i], 8)), shr32(crc, 8))
         IN IF next.lo >= 0 THEN crcFrom(buf, i + 1, end, next) ELSE next

crc32(buf, offset, length) ==
    xor32(crcFrom(buf, offset, offset + length, ALL_ONES), ALL_ONES)

\* The four bytes writeUInt32BE stores for a Uint32 value, and for a number
\* below 2 ^ 31.
bytesOfWord(w) == <<w.hi \div 256, w.hi % 256, w.lo \div 256, w.lo % 256>>
bytesOf(v) == bytesOfWord(word(v \div Half, v % Half))

\* buf with the bytes stored from offset off on.
writeBytes(buf, off, bytes) ==
    [i \in DOMAIN buf |->
        IF i >= off /\ i < off + Len(bytes) THEN bytes[i - off + 1] ELSE buf[i]]

\* buf.writeUInt32BE(crc32(buf, from, length), off)
writeCrc(buf, from, length, off) ==
    writeBytes(buf, off, bytesOfWord(crc32(buf, from, length)))

\* "IHDR", "IDAT" and "IEND" in ASCII
TAG_IHDR == <<73, 72, 68, 82>>
TAG_IDAT == <<73, 68, 65, 84>>
TAG_IEND == <<73, 69, 78, 68>>

PNG_SIGNATURE == <<137, 80, 78, 71, 13, 10, 26, 10>>
IHDR_OFF == Len(PNG_SIGNATURE)
IDAT_OFF == IHDR_OFF + 25

\* pngOut after the module is loaded: the signature and the IHDR chunk of a
\* 200 x 100 RGBA image with 8 bits per channel.
pngOutLoaded(size) ==
    LET zero == [i \in 0 .. (size - 1) |-> 0]
        sig == writeBytes(zero, 0, PNG_SIGNATURE)
        ihdr == writeBytes(sig, IHDR_OFF,
                           bytesOf(13) \o TAG_IHDR \o bytesOf(STRIP_WIDTH)
                           \o bytesOf(STRIP_HEIGHT) \o <<8, 6, 0, 0, 0>>)
    IN writeCrc(ihdr, IHDR_OFF + 4, 17, IHDR_OFF + 21)

\* Steps 3 and 4: the IDAT chunk around the compressed bytes and the IEND
\* chunk, written into pngOut.  Result: the buffer and pngLen.
buildChunks(pngOut, compressed) ==
    LET compLen == Len(compressed)
        idat == writeBytes(pngOut, IDAT_OFF,
                           bytesOf(compLen) \o TAG_IDAT \o compressed)
        crcOff == IDAT_OFF + 8 + compLen
        withCrc == writeCrc(idat, IDAT_OFF + 4, 4 + compLen, crcOff)
        iendOff == crcOff + 4
        iend == writeBytes(withCrc, iendOff, bytesOf(0) \o TAG_IEND)
    IN [pngOut |-> writeCrc(iend, iendOff + 4, 4, iendOff + 8),
        pngLen |-> iendOff + 12]

\* B64_TABLE[i]: the character code of
\* "ABCDEFGHIJKLMNOPQRSTUVWXYZabcdefghijklmnopqrstuvwxyz0123456789+/"[i]
B64_CHARS ==
    [i \in 0 .. 25 |-> 65 + i] @@ [i \in 26 .. 51 |-> 97 + (i - 26)]
    @@ [i \in 52 .. 61 |-> 48 + (i - 52)] @@ (62 :> 43) @@ (63 :> 47)

\* Variant: the URL-safe alphabet, with - and _ for + and /.
B64_TABLE_UrlSafe(i) == IF i = 62 THEN 45 ELSE IF i = 63 THEN 95 ELSE B64_CHARS[i]

B64_TABLE(i) == B64_CHARS[i]

\* '='
PAD == 61

\* "data:image/png;base64," in ASCII
DATA_URI_PREFIX ==
    <<100, 97, 116, 97, 58, 105, 109, 97, 103, 101, 47, 112, 110, 103, 59,
      98, 97, 115, 101, 54, 52, 44>>
PREFIX_LEN == Len(DATA_URI_PREFIX)

\* The four characters of the loop body for the bytes b0, b1, b2.
fullGroup(b0, b1, b2) ==
    <<B64_TABLE(b0 \div 4),
      B64_TABLE((b0 % 4) * 16 + b1 \div 16),
      B64_TABLE((b1 % 16) * 4 + b2 \div 64),
      B64_TABLE(b2 % 64)>>

\* The four characters written for a remainder of one byte, and of two.
lastGroupOfOne(b0) ==
    <<B64_TABLE(b0 \div 4), B64_TABLE((b0 % 4) * 16), PAD, PAD>>
lastGroupOfTwo(b0, b1) ==
    <<B64_TABLE(b0 \div 4),
      B64_TABLE((b0 % 4) * 16 + b1 \div 16),
      B64_TABLE((b1 % 16) * 4),
      PAD>>

\* Step 5: the base64 text of pngOut[0 .. pngLen) written into dataUriBuf
\* from PREFIX_LEN on.  Result: the buffer and di, the end of the text.
base64Into(dataUriBuf, pngOut, pngLen) ==
    LET rem == pngLen % 3
        end3 == pngLen - rem
        di == PREFIX_LEN + 4 * (end3 \div 3) + (IF rem = 0 THEN 0 ELSE 4)
        groupAt(si) ==
            IF si < end3 THEN fullGroup(pngOut[si], pngOut[si + 1], pngOut[si + 2])
            ELSE IF rem = 1 THEN lastGroupOfOne(pngOut[si])
            ELSE lastGroupOfTwo(pngOut[si], pngOut[si + 1])
    IN [dataUriBuf |->
            [j \in DOMAIN dataUriBuf |->
                IF j >= PREFIX_LEN /\ j < di
                THEN groupAt(3 * ((j - PREFIX_LEN) \div 4))[((j - PREFIX_LEN) % 4) + 1]
                ELSE dataUriBuf[j]],
        di |-> di]

\* dataUriBuf.toString("ascii", 0, di): the characters, by their codes.
toAscii(buf, di) == [k \in 1 .. di |-> buf[k - 1] % 128]

\* ------------------------------------------------------------------------
\* WasapiAudioSource: sample ingest and analysis window (pure part)
\* ------------------------------------------------------------------------

Slots == 0 .. (FFT_SIZE - 1)

\* new Float32Array(FFT_SIZE): all zero
ZeroSamples == [k \in Slots |-> 0]

\* chunk.readFloatLE(off): the float whose 32-bit pattern is the four bytes at
\* off, least significant byte first.  A float is represented by its bit
\* pattern; chunk is a sequence of bytes, off counts from 0.
readFloatLE(chunk, off) ==
    chunk[off + 1] + 256 * chunk[off + 2] + 65536 * chunk[off + 3]
    + 16777216 * chunk[off + 4]

\* Variant: only whole pairs of samples are taken.
floatCountPairs(len) == (len \div (2 * SAMPLE_BYTES)) * 2

\* const floatCount = Math.floor(chunk.length / 4)
floatCount(len) == len \div SAMPLE_BYTES

\* Variant: the analysis runs one sample late.
hopReachedLate(h) == h > HOP_SIZE

\* if (this.hopCount >= HOP_SIZE)
hopReached(h) == h >= HOP_SIZE

\* Variant: the window is read from slot 0, not from the write cursor.
ringReadFromZero(buf, start) == [i \in Slots |-> buf[i]]

\* computeFFT: the samples copied into fftReal, by position (position i is
\* the one multiplied by hannCoeffs[i]): segment start..FFT_SIZE-1, then
\* segment 0..start-1.
ringRead(buf, start) ==
    LET firstLen == FFT_SIZE - start
    IN [i \in Slots |-> IF i < firstLen THEN buf[start + i] ELSE buf[i - firstLen]]

\* computeFFT: the samples fed to each Goertzel resonator, in the order they
\* are fed: segment 1 (start..FFT_SIZE), then segment 2 (0..start).
goertzelRead(buf, start) ==
    LET firstLen == FFT_SIZE - start
    IN [i \in Slots |-> IF i < firstLen THEN buf[start + i] ELSE buf[i - firstLen]]

\* computeFFT() on the source state st (a record of the source's fields and
\* of the observations of its analyses).  The transform itself and the
\* magnitudes are a function of the window read and are not computed.
computeFFT(st) ==
    [st EXCEPT !.fftInput = ringRead(st.sampleBuffer, st.writePos),
               !.goertzelInput = goertzelRead(st.sampleBuffer, st.writePos),
               !.runsAt = Append(@, st.samplesIn)]

\* The body of the for loop of processAudioChunk, for sample i.
ingestSample(chunk, i, st) ==
    LET stored == [st EXCEPT !.sampleBuffer[st.writePos] =
                                 readFloatLE(chunk, i * SAMPLE_BYTES),
                             !.writePos = (st.writePos + 1) % FFT_SIZE,
                             !.hopCount = st.hopCount + 1,
                             !.samplesIn = st.samplesIn + 1]
    IN IF hopReached(stored.hopCount)
       THEN computeFFT([stored EXCEPT !.hopCount = 0])
       ELSE stored

\* The iterations lo .. hi-1 of the for loop of processAudioChunk, in order:
\* the first half of them, and when these are done (the write cursor is then
\* a slot of the buffer) the second half.
RECURSIVE ingest(_, _, _, _)
ingest(chunk, lo, hi, st) ==
    IF hi <= lo THEN st
    ELSE IF hi = lo + 1 THEN ingestSample(chunk, lo, st)
    ELSE LET mid == (lo + hi) \div 2
             half == ingest(chunk, lo, mid, st)
         IN IF half.writePos \in Slots THEN ingest(chunk, mid, hi, half) ELSE half

\* processAudioChunk(chunk)
processAudioChunk(chunk, st) == ingest(chunk, 0, floatCount(Len(chunk)), st)

\* ------------------------------------------------------------------------
\* Bounds and input sets of the model
\* ------------------------------------------------------------------------

\* tick() runs at most this many times in a behaviour.
MaxTicks == 3
\* At most this many child processes exist at once (alive, or killed with
\* their exit event still to come).
MaxProcs == 1
\* nextTheme() is called at most this many times in a behaviour.
MaxThemeCalls == 6

\* Consumer identities (ev.action.id).
Ids == {"a", "b"}

flat(v) == [i \in Bins |-> v]
spike(k, v) == [i \in Bins |-> IF i = k THEN v ELSE 0]
ramp(v) == [i \in Bins |-> (i + 1) * v]

\* Band sets WasapiAudioSource.getFrequencyData can return while running:
\* non-negative, not clamped.  Silence, a level that moves the smoothed bands
\* by exactly the dirty threshold, a loud flat spectrum above 1.0, a single
\* band next to a dial boundary.
WasapiOutputs ==
    {ZeroBins, flat(134), flat(1000), flat(25000), spike(3, 6000), ramp(200)}

\* Band sets DemoAudioSource.getFrequencyData can return: clamped to [0,1].
DemoOutputs == {flat(3000), spike(9, Scale)}

\* At most this many chunks arrive from the capture process in a behaviour.
MaxChunks == 4

\* Byte k (0 = least significant) of the 32-bit pattern v.
byteOf(v, k) ==
    IF k = 0 THEN v % 256
    ELSE IF k = 1 THEN (v \div 256) % 256
    ELSE IF k = 2 THEN (v \div 65536) % 256
    ELSE (v \div 16777216) % 256

\* The chunk of len bytes the capture process writes after it has written
\* `before` whole samples: the whole samples carry their arrival number
\* (before + 1, before + 2, ...), the bytes of a trailing partial sample are
\* 255.
streamChunk(before, len) ==
    [p \in 1 .. len |->
        IF (p - 1) \div SAMPLE_BYTES < len \div SAMPLE_BYTES
        THEN byteOf(before + ((p - 1) \div SAMPLE_BYTES) + 1, (p - 1) % SAMPLE_BYTES)
        ELSE 255]

\* The len bytes from byte offset `from` (counted from 0) of the stream the
\* capture process writes: sample after sample, each carrying its number
\* in the stream (1, 2, ...), least significant byte first.
streamBytes(from, len) ==
    [p \in 1 .. len |->
        byteOf(((from + p - 1) \div SAMPLE_BYTES) + 1, (from + p - 1) % SAMPLE_BYTES)]

\* Lengths in bytes of the pieces a stream is split into: half a sample, one
\* sample, a sample and a half, one hop.
SplitLengths == {2, 4, 6, 4096}

\* Chunk lengths in bytes: no whole sample, one sample and a partial one, one
\* hop exactly, more than a window and a partial sample.
ChunkLengths == {3, 6, 4096, 8199}

\* Arguments of a direct renderVisualizerFrame call: left edge, five bars and
\* right edge that never fall or never rise from left to right, over a flat
\* level, two close levels and full scale.
CurveLevels == {0, 8000, 8500, Scale}
CurveInputs ==
    LET pts == 0 .. (BARS_PER_DIAL + 1)
        mono == {y \in [pts -> CurveLevels] :
                    \/ \A k \in 0 .. BARS_PER_DIAL : y[k] <= y[k + 1]
                    \/ \A k \in 0 .. BARS_PER_DIAL : y[k] >= y[k + 1]}
    IN {[bins |-> [b \in Bars |-> y[b + 1]], leftEdge |-> y[0],
         rightEdge |-> y[BARS_PER_DIAL + 1]] : y \in mono}

\* Changes of gain requested of adjustGain in the engine specifications.
GainDeltas == {0 - 30000, 30000}

\* What deflateSync returns: byte sequences of four lengths, so that pngLen
\* takes every remainder modulo 3 and a shorter container follows a longer
\* one; all zero, all 255, and two mixed ones.
MaxEncodes == 2
bytePattern(n, first, step) == [k \in 1 .. n |-> (first + (k - 1) * step) % 256]
CompressedLengths == {12, 13, 14, 19}
CompressedOutputs ==
    {bytePattern(n, 0, 0) : n \in CompressedLengths}
    \cup {bytePattern(n, 255, 0) : n \in CompressedLengths}
    \cup {bytePattern(n, 120, 37) : n \in CompressedLengths}
    \cup {bytePattern(n, 3, 101) : n \in CompressedLengths}

\* The buffer sizes: in the source MAX_COMPRESSED is RAW_SIZE + 1024, the
\* longest output deflateSync can have; here the longest it has.
MAX_COMPRESSED ==
    CHOOSE n \in CompressedLengths : \A m \in CompressedLengths : m <= n
PNG_MAX == IDAT_OFF + (12 + MAX_COMPRESSED) + 12
MAX_B64_LEN == ((PNG_MAX + 2) \div 3) * 4

\* ------------------------------------------------------------------------
\* State
\* ------------------------------------------------------------------------

\* null: no timeout handle, no ChildProcess
NoTimer == 0 - 1
NoProcess == 0 - 1

VARIABLES
    \* AudioEngine
    actions,        \* Map<string, RegisteredAction>, in insertion order
    intervalId,     \* the handle of the scheduled tick, or NoTimer
    useWasapi,
    smoothedBins,
    gain,
    themeIndex,
    autoGainPeak,
    \* the runtime's timer queue: handles of the timeouts still to fire
    timers,
    \* WasapiAudioSource
    running,
    process,        \* the ChildProcess handle, or NoProcess
    \* the environment: whether bin/wasapi-capture.exe exists, and the child
    \* processes that exist ("alive", or "killed": signalled, exit to come)
    exeExists,
    procs,
    \* observation of the run (not program state)
    ticks,          \* number of tick() runs so far
    \* what the latest step did, if it was a tick() ("none", zero, empty if not)
    lastSource,     \* the source it read: "demo" or "wasapi"
    lastRaw,        \* the band set that source returned
    lastSmoothed,   \* the smoothed bands it started from
    calls,          \* its renderVisualizerFrame + setFeedback calls, in order
    unavailable,    \* the capture source was found unavailable since it last started
    crashed,        \* the capture process exited or errored while the loop was
                    \* running on the real source, since the loop last started
    themeCalls,     \* number of nextTheme() calls so far
    \* WasapiAudioSource: the ring buffer
    sampleBuffer,
    writePos,
    hopCount,
    \* what the latest analysis read: the samples copied into fftReal, by
    \* position, and the samples fed to the Goertzel resonators, in order
    fftInput,
    goertzelInput,
    \* observation of the ingest (not program state)
    samplesIn,      \* number of samples stored so far
    chunksIn,       \* number of chunks received so far
    lastChunkLen,   \* the length in bytes of the latest chunk received
    bytesIn,        \* number of bytes received so far
    runsAt,         \* for each computeFFT() run, the number of samples stored
                    \* when it ran
    \* a direct call of renderVisualizerFrame: its arguments, and the control
    \* points, tangents and curve heights it computed
    curveArgs,
    frame,
    \* PNG encoder: the reused buffers, and the latest call's pngLen, returned
    \* string (as character codes) and number among the calls so far
    pngOut,
    pngLen,
    dataUriBuf,
    dataUri,
    encodes,
    \* observation of the source's output over the ticks (not program state)
    heldRaw,        \* the band set the latest tick() read
    heldTicks,      \* the number of ticks in a row, up to the latest, that read it
    heldFrom,       \* autoGainPeak before the first tick of that run
    holdFor,        \* how long a run of equal band sets is followed beyond
                    \* the first MaxTicks ticks
    procCap,        \* how many child processes, killed ones whose exit is
                    \* still to come included, the run lets exist at once
    \* observation of the registrations (not program state)
    fresh           \* the ids registered, and still registered, since the
                    \* latest tick()

engineVars == <<actions, intervalId, useWasapi, smoothedBins, gain, themeIndex,
                autoGainPeak, timers>>
sourceVars == <<running, process, exeExists, procs>>
tickObs == <<ticks, lastSource, lastRaw, lastSmoothed, calls>>

\* A step that is not a tick() leaves nothing of a tick to observe.
noTick ==
    /\ ticks' = ticks
    /\ lastSource' = "none"
    /\ lastRaw' = ZeroBins
    /\ lastSmoothed' = ZeroBins
    /\ calls' = <<>>
captureObs == <<unavailable, crashed>>
themeObs == <<themeCalls>>
ingestVars == <<sampleBuffer, writePos, hopCount, fftInput, goertzelInput,
                samplesIn, chunksIn, lastChunkLen, bytesIn, runsAt>>
renderVars == <<curveArgs, frame>>
encoderVars == <<pngOut, pngLen, dataUriBuf, dataUri, encodes>>
holdObs == <<heldRaw, heldTicks, heldFrom, holdFor, procCap>>
vars == <<engineVars, sourceVars, tickObs, captureObs, themeObs, ingestVars,
          renderVars, encoderVars, holdObs, fresh>>

\* No direct renderer call.
NoArgs == [bins |-> ZeroSlice, leftEdge |-> 0, rightEdge |-> 0]
NoFrame == [rendered |-> FALSE, cpX |-> <<>>, cpY |-> <<>>, cpTangents |-> <<>>,
            curveHeights |-> <<>>]

\* The state after the module is loaded and the engine constructed.
Loaded ==
    /\ actions = <<>>
    /\ intervalId = NoTimer
    /\ useWasapi = FALSE
    /\ smoothedBins = ZeroBins
    /\ gain = GAIN_INIT
    /\ themeIndex = 0
    /\ autoGainPeak = AUTO_GAIN_MIN_PEAK * Fine
    /\ timers = {}
    /\ running = FALSE
    /\ process = NoProcess
    /\ exeExists \in BOOLEAN
    /\ procs = << >>
    /\ ticks = 0
    /\ lastSource = "none"
    /\ lastRaw = ZeroBins
    /\ lastSmoothed = ZeroBins
    /\ calls = <<>>
    /\ unavailable = FALSE
    /\ crashed = FALSE
    /\ themeCalls = 0
    /\ sampleBuffer = ZeroSamples
    /\ writePos = 0
    /\ hopCount = 0
    /\ fftInput = ZeroSamples
    /\ goertzelInput = ZeroSamples
    /\ samplesIn = 0
    /\ chunksIn = 0
    /\ bytesIn = 0
    /\ lastChunkLen = 0
    /\ runsAt = <<>>
    /\ frame = NoFrame
    /\ pngOut = pngOutLoaded(PNG_MAX)
    /\ pngLen = 0
    /\ dataUriBuf = [j \in 0 .. (PREFIX_LEN + MAX_B64_LEN - 1) |->
                        IF j < PREFIX_LEN THEN DATA_URI_PREFIX[j + 1] ELSE 0]
    /\ dataUri = <<>>
    /\ encodes = 0
    /\ fresh = {}
    /\ heldRaw = ZeroBins
    /\ heldTicks = 0
    /\ heldFrom = AUTO_GAIN_MIN_PEAK * Fine

Init == Loaded /\ curveArgs = NoArgs /\ holdFor = 0 /\ procCap = MaxProcs

\* The same, with the arguments of a direct renderer call chosen.
InitCurve == Loaded /\ curveArgs \in CurveInputs /\ holdFor = 0 /\ procCap = MaxProcs

\* ------------------------------------------------------------------------
\* WasapiAudioSource: start, stop, getFrequencyData
\* ------------------------------------------------------------------------

\* A handle no existing process has and the process field does not hold.
freshProcess(ps, held) ==
    CHOOSE p \in 0 .. (Cardinality(DOMAIN ps) + 1) :
        /\ p \notin DOMAIN ps
        /\ p # held
        /\ \A q \in 0 .. (Cardinality(DOMAIN ps) + 1) :
              (q \notin DOMAIN ps /\ q # held) => p <= q

\* start(): spawnThrows is whether spawn() throws synchronously.
\* Result: the return value and the fields and processes after the call.
start(isRunning, held, ps, exists, spawnThrows) ==
    IF isRunning
    THEN [result |-> TRUE, running |-> isRunning, process |-> held, procs |-> ps]
    ELSE IF ~exists \/ spawnThrows
    THEN [result |-> FALSE, running |-> isRunning, process |-> held, procs |-> ps]
    ELSE LET p == freshProcess(ps, held)
         IN [result |-> TRUE, running |-> TRUE, process |-> p,
             procs |-> [q \in DOMAIN ps \cup {p} |->
                           IF q = p THEN "alive" ELSE ps[q]]]

\* stop(): kill the held process, if any; clear the field and the flag.
stop(held, ps) ==
    [running |-> FALSE,
     process |-> NoProcess,
     procs |-> IF held # NoProcess /\ held \in DOMAIN ps
               THEN [ps EXCEPT ![held] = "killed"]
               ELSE ps]

\* Variant: the running flag is not consulted.
getFrequencyDataStale(isRunning, spectrum) == spectrum

\* getFrequencyData(numBins): all zero when not running, else the mapped
\* spectrum of the latest analysis (an input of the model).
getFrequencyData(isRunning, spectrum) ==
    IF ~isRunning THEN ZeroBins ELSE spectrum

\* ------------------------------------------------------------------------
\* AudioEngine: loop control
\* ------------------------------------------------------------------------

\* A handle no pending timeout has.
freshTimer(tm) ==
    CHOOSE h \in 0 .. Cardinality(tm) :
        /\ h \notin tm
        /\ \A g \in 0 .. Cardinality(tm) : g \notin tm => h <= g

\* this.intervalId = setTimeout(() => this.tick(), FRAME_INTERVAL)
scheduleTick(tm) ==
    LET h == freshTimer(tm)
    IN [intervalId |-> h, timers |-> tm \cup {h}]

\* if (this.intervalId) { clearTimeout(this.intervalId); this.intervalId = null }
stopLoop(iid, tm) ==
    IF iid # NoTimer
    THEN [intervalId |-> NoTimer, timers |-> tm \ {iid}]
    ELSE [intervalId |-> iid, timers |-> tm]

\* Variant: the loop is started on every registration.
needsStartAlways(iid) == TRUE

\* registerAction: if (!this.intervalId) this.startLoop()
needsStart(iid) == iid = NoTimer

\* Variant: the size is compared as it was before the delete.
noneLeftOffByOne(regs) == Len(regs) = 1

\* unregisterAction: if (this.actions.size === 0) this.stopLoop()
noneLeft(regs) == Len(regs) = 0

\* this.actions.set(actionId, {...}): a known key keeps its place.
mapSet(regs, reg) ==
    IF \E i \in 1 .. Len(regs) : regs[i].id = reg.id
    THEN [i \in 1 .. Len(regs) |-> IF regs[i].id = reg.id THEN reg ELSE regs[i]]
    ELSE Append(regs, reg)

\* this.actions.delete(actionId)
mapDelete(regs, actionId) ==
    LET keep(r) == r.id # actionId
    IN SelectSeq(regs, keep)

registered == {actions[i].id : i \in 1 .. Len(actions)}

\* ------------------------------------------------------------------------
\* AudioEngine: operations
\* ------------------------------------------------------------------------

\* registerAction(actionId, action, column).  spawnThrows: whether spawn()
\* throws if start() gets to call it.
registerAction(actionId, column, spawnThrows) ==
    LET regs == mapSet(actions, newRegistration(actionId, column))
    IN /\ actions' = regs
       /\ IF needsStart(intervalId)
          THEN \* startLoop()
               LET st == IF exeExists
                         THEN start(running, process, procs, exeExists, spawnThrows)
                         ELSE [result |-> FALSE, running |-> running,
                               process |-> process, procs |-> procs]
                   sch == scheduleTick(timers)
               IN /\ Cardinality(DOMAIN st.procs) <= procCap
                  /\ useWasapi' = IF exeExists THEN st.result ELSE useWasapi
                  /\ running' = st.running
                  /\ process' = st.process
                  /\ procs' = st.procs
                  /\ intervalId' = sch.intervalId
                  /\ timers' = sch.timers
                  /\ unavailable' = ~(exeExists /\ st.result)
                  /\ crashed' = FALSE
          ELSE UNCHANGED <<useWasapi, running, process, procs, intervalId, timers,
                           unavailable, crashed>>
       /\ noTick
       /\ UNCHANGED <<smoothedBins, gain, themeIndex, autoGainPeak, exeExists>>
       /\ UNCHANGED <<themeObs, ingestVars, renderVars, encoderVars, holdObs>>
       /\ fresh' = fresh \cup {actionId}

\* unregisterAction(actionId)
unregisterAction(actionId) ==
    LET regs == mapDelete(actions, actionId)
        sl == IF noneLeft(regs) THEN stopLoop(intervalId, timers)
              ELSE [intervalId |-> intervalId, timers |-> timers]
    IN /\ actions' = regs
       /\ intervalId' = sl.intervalId
       /\ timers' = sl.timers
       /\ noTick
       /\ UNCHANGED <<useWasapi, smoothedBins, gain, themeIndex, autoGainPeak,
                      sourceVars, captureObs>>
       /\ UNCHANGED <<themeObs, ingestVars, renderVars, encoderVars, holdObs>>
       /\ fresh' = fresh \ {actionId}

\* Variant: only the upper limit is applied.
clampGainUpperOnly(g, delta) == Min(GAIN_MAX, g + delta)

\* Math.max(0.2, Math.min(3.0, this.gain + delta))
clampGain(g, delta) == Max(GAIN_MIN, Min(GAIN_MAX, g + delta))

\* adjustGain(delta)
adjustGain(delta) ==
    /\ gain' = clampGain(gain, delta)
    /\ noTick
    /\ UNCHANGED <<actions, intervalId, useWasapi, smoothedBins, themeIndex,
                   autoGainPeak, timers, sourceVars, captureObs>>
    /\ UNCHANGED <<themeObs, ingestVars, renderVars, encoderVars, holdObs, fresh>>

\* AudioVisualizerAction.onDialRotate: delta = ev.payload.ticks * 0.05
onDialRotate(dialTicks) == adjustGain(dialTicks * 500)

\* Variant: the index stops at the last theme.
nextIndexNoWrap(idx) == IF idx + 1 < Len(THEME_NAMES) THEN idx + 1 ELSE idx

\* (this.themeIndex + 1) % THEME_NAMES.length
nextIndex(idx) == (idx + 1) % Len(THEME_NAMES)

\* Variant: the theme change also forgets every snapshot's edges, so that
\* every consumer is redrawn by the next tick.
nextThemeForcesFrame ==
    /\ themeCalls < MaxThemeCalls
    /\ themeIndex' = nextIndex(themeIndex)
    /\ themeCalls' = themeCalls + 1
    /\ actions' = [i \in 1 .. Len(actions) |->
                      [actions[i] EXCEPT !.lastLeftEdge = EDGE_SENTINEL,
                                         !.lastRightEdge = EDGE_SENTINEL]]
    /\ noTick
    /\ UNCHANGED <<ingestVars, renderVars, encoderVars, holdObs, fresh>>
    /\ UNCHANGED <<intervalId, useWasapi, smoothedBins, gain,
                   autoGainPeak, timers, sourceVars, captureObs>>

\* nextTheme()
nextTheme ==
    /\ themeCalls < MaxThemeCalls
    /\ themeIndex' = nextIndex(themeIndex)
    /\ themeCalls' = themeCalls + 1
    /\ noTick
    /\ UNCHANGED <<ingestVars, renderVars, encoderVars, holdObs, fresh>>
    /\ UNCHANGED <<actions, intervalId, useWasapi, smoothedBins, gain,
                   autoGainPeak, timers, sourceVars, captureObs>>

\* get currentTheme(): THEME_NAMES[this.themeIndex] ?? "neon"
currentTheme(idx) ==
    IF idx >= 0 /\ idx < Len(THEME_NAMES) THEN THEME_NAMES[idx + 1] ELSE "neon"

\* dispose()
dispose ==
    LET sl == stopLoop(intervalId, timers)
        st == stop(process, procs)
    IN /\ intervalId' = sl.intervalId
       /\ timers' = sl.timers
       /\ running' = st.running
       /\ process' = st.process
       /\ procs' = st.procs
       /\ actions' = <<>>
       /\ noTick
       /\ UNCHANGED <<useWasapi, smoothedBins, gain, themeIndex, autoGainPeak,
                      exeExists, captureObs>>
       /\ UNCHANGED <<themeObs, ingestVars, renderVars, encoderVars, holdObs>>
       /\ fresh' = {}

\* tick(), run by the timeout t.  input: what the selected source produces
\* (the analysed spectrum of the capture, or the demo's band set).  rejects:
\* the consumers whose setFeedback throws in this tick.
tick(t, input, rejects) ==
    /\ t \in timers
    /\ input \in (IF useWasapi THEN WasapiOutputs ELSE DemoOutputs)
    /\ LET rawBins == IF useWasapi THEN getFrequencyData(running, input) ELSE input
           peak == trackPeak(autoGainPeak, framePeak(rawBins))
           gained == applyGain(rawBins, gain, autoBoost(peak))
           smoothedRaw == spectralSmooth(gained, 0)
           smoothed == temporalSmooth(smoothedBins, smoothedRaw)
           loop == consumerLoop(actions, 1, smoothed, currentTheme(themeIndex),
                                rejects, <<>>)
           pending == timers \ {t}
           sch == IF loop.completed THEN scheduleTick(pending)
                  ELSE [intervalId |-> intervalId, timers |-> pending]
       IN /\ \/ ticks < MaxTicks
             \/ rawBins = heldRaw /\ heldTicks < holdFor
          /\ autoGainPeak' = peak
          /\ smoothedBins' = smoothed
          /\ actions' = loop.actions
          /\ intervalId' = sch.intervalId
          /\ timers' = sch.timers
          /\ ticks' = ticks + 1
          /\ lastSource' = IF useWasapi THEN "wasapi" ELSE "demo"
          /\ lastRaw' = rawBins
          /\ lastSmoothed' = smoothedBins
          /\ calls' = loop.calls
          /\ heldRaw' = rawBins
          /\ heldTicks' = IF rawBins = heldRaw /\ heldTicks > 0
                           THEN heldTicks + 1 ELSE 1
          /\ heldFrom' = IF rawBins = heldRaw /\ heldTicks > 0
                          THEN heldFrom ELSE autoGainPeak
    /\ UNCHANGED <<useWasapi, gain, themeIndex, sourceVars, captureObs>>
    /\ UNCHANGED <<themeObs, ingestVars, renderVars, encoderVars, holdFor, procCap>>
    /\ fresh' = {}

\* ------------------------------------------------------------------------
\* WasapiAudioSource: events of the child process
\* ------------------------------------------------------------------------

\* process.on("exit"): the process p ends (by itself, or after kill()).
onExit(p) ==
    /\ p \in DOMAIN procs
    /\ procs' = [q \in DOMAIN procs \ {p} |-> procs[q]]
    /\ running' = FALSE
    /\ crashed' = (crashed \/ (useWasapi /\ intervalId # NoTimer))
    /\ noTick
    /\ UNCHANGED <<engineVars, process, exeExists, unavailable>>
    /\ UNCHANGED <<themeObs, ingestVars, renderVars, encoderVars, holdObs, fresh>>

\* process.on("error"): the process p could not be spawned; the failure is
\* reported after spawn() has returned.
onError(p) ==
    /\ p \in DOMAIN procs
    /\ procs[p] = "alive"
    /\ procs' = [q \in DOMAIN procs \ {p} |-> procs[q]]
    /\ running' = FALSE
    /\ crashed' = (crashed \/ (useWasapi /\ intervalId # NoTimer))
    /\ unavailable' = (unavailable \/ p = process)
    /\ noTick
    /\ UNCHANGED <<engineVars, process, exeExists>>
    /\ UNCHANGED <<themeObs, ingestVars, renderVars, encoderVars, holdObs, fresh>>

\* process.stdout.on("data"): a chunk of the output of process p arrives.
onDataChunk(p, chunk) ==
    /\ p \in DOMAIN procs
    /\ chunksIn < MaxChunks
    /\ \E st \in {processAudioChunk(chunk,
                    [sampleBuffer |-> sampleBuffer, writePos |-> writePos,
                     hopCount |-> hopCount, fftInput |-> fftInput,
                     goertzelInput |-> goertzelInput, samplesIn |-> samplesIn,
                     runsAt |-> runsAt])} :
          /\ sampleBuffer' = st.sampleBuffer
          /\ writePos' = st.writePos
          /\ hopCount' = st.hopCount
          /\ fftInput' = st.fftInput
          /\ goertzelInput' = st.goertzelInput
          /\ samplesIn' = st.samplesIn
          /\ runsAt' = st.runsAt
          /\ lastChunkLen' = Len(chunk)
    /\ chunksIn' = chunksIn + 1
    /\ bytesIn' = bytesIn + Len(chunk)
    /\ noTick
    /\ UNCHANGED <<engineVars, sourceVars, captureObs, themeObs, renderVars, encoderVars, holdObs, fresh>>

\* The process p writes len more bytes, which arrive as one chunk that
\* starts with a whole sample.
onData(p, len) == onDataChunk(p, streamChunk(samplesIn, len))

\* The next len bytes of the byte stream of process p arrive as one chunk,
\* wherever the chunks before it ended.
onDataSplit(p, len) == onDataChunk(p, streamBytes(bytesIn, len))

\* renderVisualizerFrame(bins, themeName, BARS_PER_DIAL, leftEdge, rightEdge)
\* called directly with the chosen arguments.
renderVisualizerFrame ==
    /\ ~frame.rendered
    /\ frame' = curveOf(curveArgs.bins, BARS_PER_DIAL, curveArgs.leftEdge,
                        curveArgs.rightEdge)
    /\ noTick
    /\ UNCHANGED <<engineVars, sourceVars, captureObs, themeObs, ingestVars,
                   curveArgs, encoderVars, holdObs, fresh>>

\* encodePNGToDataURI(width, height, rgba), from the result of
\* deflateSync(rawBuf) on: compressed is that result.
encodePNGToDataURI(compressed) ==
    /\ encodes < MaxEncodes
    /\ \E ch \in {buildChunks(pngOut, compressed)} :
         \E b64 \in {base64Into(dataUriBuf, ch.pngOut, ch.pngLen)} :
            /\ pngOut' = ch.pngOut
            /\ pngLen' = ch.pngLen
            /\ dataUriBuf' = b64.dataUriBuf
            /\ dataUri' = toAscii(b64.dataUriBuf, b64.di)
    /\ encodes' = encodes + 1
    /\ noTick
    /\ UNCHANGED <<engineVars, sourceVars, captureObs, themeObs, ingestVars,
                   renderVars, holdObs, fresh>>

\* ------------------------------------------------------------------------
\* Specifications
\* ------------------------------------------------------------------------

\* Every operation with every input of the model.
Next ==
    \/ \E id \in Ids, c \in Columns, th \in BOOLEAN : registerAction(id, c, th)
    \/ \E id \in Ids : unregisterAction(id)
    \/ \E d \in GainDeltas : adjustGain(d)
    \/ nextTheme
    \/ dispose
    \/ \E t \in timers, f \in WasapiOutputs \cup DemoOutputs, rj \in SUBSET Ids :
          tick(t, f, rj)
    \/ \E p \in DOMAIN procs : onExit(p)
    \/ \E p \in DOMAIN procs : onError(p)
    \/ \E p \in DOMAIN procs, len \in ChunkLengths : onData(p, len)

Spec == Init /\ [][Next]_vars

\* The loop and the capture process: registration, disposal, timer firings
\* and process events, over two band sets per source.
LoopColumns == {0}
LoopInputs == {ZeroBins, flat(25000), flat(3000)}

NextLoop ==
    \/ \E id \in Ids, c \in LoopColumns, th \in BOOLEAN : registerAction(id, c, th)
    \/ \E id \in Ids : unregisterAction(id)
    \/ dispose
    \/ \E t \in timers, f \in LoopInputs : tick(t, f, {})
    \/ \E p \in DOMAIN procs : onExit(p)
    \/ \E p \in DOMAIN procs : onError(p)

SpecLoop == Init /\ [][NextLoop]_vars

\* The tick's band processing and per-consumer rendering: registration,
\* gain changes and timer firings over all band sets, with consumers that
\* may reject their image.
RenderPlacements == {<<"a", 0>>, <<"a", 1>>, <<"b", 1>>, <<"b", 3>>}

RenderInputs == {ZeroBins, flat(134), spike(3, 6000), flat(3000)}

NextRender ==
    \/ \E pl \in RenderPlacements : registerAction(pl[1], pl[2], FALSE)
    \/ \E id \in Ids : unregisterAction(id)
    \/ \E t \in timers, f \in RenderInputs, rj \in SUBSET Ids : tick(t, f, rj)

SpecRender == Init /\ [][NextRender]_vars

\* The band values of the tick under every gain: gain changes and timer
\* firings over loud, clamped and single-band inputs.
BandsPlacements == {<<"a", 1>>, <<"b", 3>>}
BandsInputs == {flat(25000), spike(3, 6000), spike(9, Scale)}

NextBands ==
    \/ \E pl \in BandsPlacements : registerAction(pl[1], pl[2], FALSE)
    \/ \E d \in GainDeltas : adjustGain(d)
    \/ \E t \in timers, f \in BandsInputs : tick(t, f, {})

SpecBands == Init /\ [][NextBands]_vars

\* The gain alone, over changes of every sign and size.
AnyGainDeltas == {0 - 1000000, 0 - 7550, 0 - 500, 0, 50, 7500, 1000000}
DialTicks == {0 - 3, 0 - 1, 1, 2}

NextGain ==
    \/ \E d \in AnyGainDeltas : adjustGain(d)
    \/ \E k \in DialTicks : onDialRotate(k)

SpecGain == Init /\ [][NextGain]_vars

\* The theme: theme changes between registrations and timer firings, so that
\* images are rendered under every theme.
ThemePlacements == {<<"a", 0>>, <<"b", 2>>}
ThemeInputs == {flat(3000), spike(9, Scale)}

NextTheme ==
    \/ \E pl \in ThemePlacements : registerAction(pl[1], pl[2], FALSE)
    \/ nextTheme
    \/ \E t \in timers, f \in ThemeInputs : tick(t, f, {})

SpecTheme == Init /\ [][NextTheme]_vars

\* The sample ingest: a capture process is started and its output arrives in
\* chunks of every kind of length; the process may exit.
NextIngest ==
    \/ registerAction("a", 0, FALSE)
    \/ \E p \in DOMAIN procs, len \in ChunkLengths : onData(p, len)
    \/ \E p \in DOMAIN procs : onExit(p)

SpecIngest == Init /\ [][NextIngest]_vars

\* The renderer's curve on its own: one direct call for each choice of
\* arguments.
NextCurve == renderVisualizerFrame

SpecCurve == InitCurve /\ [][NextCurve]_vars

\* ------------------------------------------------------------------------
\* Properties
\* ------------------------------------------------------------------------

\* The render calls of a tick that went to consumer id.
callsFor(cs, id) == SelectSeq(cs, LAMBDA c : c.id = id)

\* Whether a band or an edge of the registration's column, in the band set
\* bins, is more than the dirty threshold away from its last-sent value.
movedBeyondThreshold(reg, bins) ==
    \/ \E b \in Bars :
          Abs(bins[reg.column * BARS_PER_DIAL + b] - reg.lastSent[b]) > DIRTY_THRESHOLD
    \/ Abs(leftEdge(bins, reg.column) - reg.lastLeftEdge) > DIRTY_THRESHOLD
    \/ Abs(rightEdge(bins, reg.column) - reg.lastRightEdge) > DIRTY_THRESHOLD

\* C1: between events, a tick timer is scheduled if and only if at least one
\* consumer is registered.
C1_TimerIffConsumers == (timers # {}) <=> (registered # {})

\* C1 witness: the loop has run and has been stopped by the removal of the
\* last consumer.
C1_Witness == ticks > 0 /\ registered = {} /\ timers = {} /\ lastSource = "none"

\* C2: at most one tick timeout is pending at any time, and it is the one
\* intervalId holds.
C2_AtMostOneTick ==
    /\ Cardinality(timers) <= 1
    /\ timers # {} => timers = {intervalId}

\* C2 witness: a second consumer has registered while the loop was running,
\* ticks have run, and one timeout is pending.
C2_Witness == Len(actions) = 2 /\ ticks >= 2 /\ Cardinality(timers) = 1

C4_StoppedLoopStopsCapture ==
    timers = {} => \A p \in DOMAIN procs : procs[p] # "alive"

\* C5 (as claimed): once the capture source is unavailable, every tick takes
\* its band set from the demo source and schedules the next tick.
C5_UnavailableFallsBackToDemo ==
    [][(unavailable /\ ticks' = ticks + 1) =>
          (lastSource' = "demo" /\ timers' # {})]_vars

\* C6 (as claimed): once the capture process has exited or errored while the
\* real source was in use, the source is never running again (no respawn).
C6_NeverRunningAgain == [][crashed => ~running']_vars

\* C6 (amended): after the capture process exited or errored while the real
\* source was in use, and until the loop is next started, the source stays
\* marked not running, no process is spawned, and every tick reads an
\* all-zero band set from the real source and schedules the next tick.
C6_ZeroUntilRestart ==
    [][/\ crashed' => (useWasapi' /\ ~running')
       /\ (crashed /\ ticks' = ticks + 1) =>
             /\ lastSource' = "wasapi"
             /\ lastRaw' = ZeroBins
             /\ timers' # {}
             /\ procs' = procs]_vars

\* C6 witness: a tick that ran after the capture process had exited.
C6_Witness ==
    /\ crashed
    /\ lastSource = "wasapi"
    /\ lastRaw = ZeroBins
    /\ timers # {}

\* C7: when a consumer's setFeedback throws in a tick, every other consumer
\* gets the same calls and the same last-sent snapshot as in that tick with no
\* error, and the next tick is scheduled.
C7_ErrorIsolated ==
    [][ticks' = ticks + 1 =>
        LET quiet == consumerLoop(actions, 1, smoothedBins',
                                  currentTheme(themeIndex), {}, <<>>)
            threw == {calls'[k].id : k \in {j \in 1 .. Len(calls') : ~calls'[j].accepted}}
        IN /\ timers' # {}
           /\ Len(actions') = Len(actions)
           /\ \A i \in 1 .. Len(actions) :
                 actions[i].id \notin threw =>
                    /\ actions'[i] = quiet.actions[i]
                    /\ callsFor(calls', actions[i].id)
                         = callsFor(quiet.calls, actions[i].id)]_vars

\* C7 witness: a tick in which the first consumer rejected its image and the
\* second accepted its own.
C7_Witness ==
    /\ Len(calls) = 2
    /\ ~calls[1].accepted
    /\ calls[2].accepted
    /\ timers # {}

\* C8: in a tick with an all-zero raw band set and all smoothed bands at 0, a
\* consumer whose last-sent snapshot is all zero gets no image and keeps its
\* snapshot.
C8_SilenceSendsNothing ==
    [][(ticks' = ticks + 1 /\ smoothedBins = ZeroBins /\ lastRaw' = ZeroBins) =>
        \A i \in 1 .. Len(actions) :
            (/\ actions[i].lastSent = ZeroSlice
             /\ actions[i].lastLeftEdge = 0
             /\ actions[i].lastRightEdge = 0) =>
                /\ callsFor(calls', actions[i].id) = <<>>
                /\ actions'[i] = actions[i]]_vars

\* C8 witness: the last tick of a silent run: the snapshot is zero and the
\* tick sent nothing.
C8_Witness ==
    /\ ticks = MaxTicks
    /\ lastSource = "wasapi"
    /\ lastRaw = ZeroBins
    /\ smoothedBins = ZeroBins
    /\ calls = <<>>
    /\ \E i \in 1 .. Len(actions) :
          /\ actions[i].lastSent = ZeroSlice
          /\ actions[i].lastLeftEdge = 0
          /\ actions[i].lastRightEdge = 0

inUnit(x) == 0 <= x /\ x <= Scale

\* C9: after every tick every smoothed band, and every band and edge value
\* handed to the renderer, lies in [0,1].
C9_ValuesInUnitRange ==
    /\ \A i \in Bins : inUnit(smoothedBins[i])
    /\ \A k \in 1 .. Len(calls) :
          /\ \A b \in Bars : inUnit(calls[k].bins[b])
          /\ inUnit(calls[k].leftEdge)
          /\ inUnit(calls[k].rightEdge)

\* C9 witness: at the largest gain a loud input was clamped and a band near
\* 1.0 was handed to the renderer.
C9_Witness ==
    /\ gain = GAIN_MAX
    /\ \E k \in 1 .. Len(calls) : \E b \in Bars : calls[k].bins[b] > 9000

\* C10: every adjustGain leaves the gain in [0.2, 3.0], at the old gain plus
\* the delta, clamped to that interval.
C10_GainClamped ==
    [][/\ gain' >= GAIN_MIN
       /\ gain' <= GAIN_MAX
       /\ \E d \in AnyGainDeltas \cup {k * 500 : k \in DialTicks} :
             gain' = (IF gain + d < GAIN_MIN THEN GAIN_MIN
                      ELSE IF gain + d > GAIN_MAX THEN GAIN_MAX
                      ELSE gain + d)]_vars

\* C10 witness: a large negative delta has been clamped at the lower limit.
C10_Witness == gain = GAIN_MIN

\* C11: from the first theme, the n-th nextTheme call selects entry n mod 5 of
\* the list neon, classic, ocean, fire, purple: every theme once, in order,
\* then the first again.  The index is always an index of the list, and the
\* current theme, and the theme of every rendered image, is a member of it.
C11_ThemeCycle ==
    LET order == <<"neon", "classic", "ocean", "fire", "purple">>
    IN /\ THEME_NAMES = order
       /\ themeIndex \in 0 .. (Len(order) - 1)
       /\ themeIndex = themeCalls % Len(order)
       /\ currentTheme(themeIndex) = order[(themeCalls % Len(order)) + 1]
       /\ \A k \in 1 .. Len(calls) : calls[k].theme = currentTheme(themeIndex)

\* C11 witness: the fifth call has wrapped back to the first theme and an
\* image has been rendered under it.
C11_Witness ==
    /\ themeCalls = Len(THEME_NAMES)
    /\ currentTheme(themeIndex) = "neon"
    /\ Len(calls) > 0

\* The float a chunk carries at byte offset off (counted from 0), as its bit
\* pattern.
sampleAt(chunk, off) ==
    chunk[off + 1] + 256 * chunk[off + 2] + 65536 * chunk[off + 3]
    + 16777216 * chunk[off + 4]

\* C12: a chunk of L bytes appends exactly floor(L/4) samples: the sample
\* count and the write cursor advance by floor(L/4), every slot written holds
\* the last whole sample of the chunk that landed on it, every other slot is
\* untouched; the trailing L mod 4 bytes are stored nowhere and are not part
\* of the first sample of the next chunk.
C12_WholeSamplesOnly ==
    [][chunksIn' = chunksIn + 1 =>
        LET L == lastChunkLen'
            k == L \div 4
            chunk == streamChunk(samplesIn, L)
        IN /\ samplesIn' = samplesIn + k
           /\ writePos' = (writePos + k) % 2048
           /\ \A s \in 0 .. 2047 :
                 LET first == (s - writePos) % 2048
                     last == first + 2048 * ((k - 1 - first) \div 2048)
                 IN sampleBuffer'[s] = (IF first < k THEN sampleAt(chunk, 4 * last)
                                                    ELSE sampleBuffer[s])]_vars

\* C12 witness: a chunk with a trailing partial sample has arrived after a
\* chunk of 8199 bytes, itself with three trailing bytes.
C12_Witness ==
    /\ chunksIn = 2
    /\ lastChunkLen = 6
    /\ samplesIn = 2050

\* C13: after n samples the hop counter is n mod H and below H, the write
\* cursor is n mod W and below W, and the analyzer has run floor(n / H)
\* times, the k-th run right after sample k * H (H = 1024, W = 2048).
C13_HopAndCursor ==
    /\ HOP_SIZE = 1024
    /\ FFT_SIZE = 2048
    /\ hopCount \in 0 .. 1023
    /\ hopCount = samplesIn % 1024
    /\ writePos \in 0 .. 2047
    /\ writePos = samplesIn % 2048
    /\ Len(runsAt) = samplesIn \div 1024
    /\ \A k \in 1 .. Len(runsAt) : runsAt[k] = k * 1024

\* C13 witness: 3073 samples have arrived in two chunks: three analyses ran,
\* two of them inside the first chunk.
C13_Witness ==
    /\ samplesIn = 3073
    /\ chunksIn = 2
    /\ Len(runsAt) = 3
    /\ hopCount = 1

\* C14: once W samples have arrived the ring buffer holds the latest W
\* samples, the oldest at the write cursor; and an analysis that ran after r
\* >= W samples read, for the FFT input and for the Goertzel resonators
\* alike, the samples r-W+1 .. r, each once, in arrival order.
C14_LatestWindowInOrder ==
    /\ samplesIn >= 2048 =>
          \A i \in 0 .. 2047 :
              sampleBuffer[(writePos + i) % 2048] = samplesIn - 2048 + i + 1
    /\ \A k \in 1 .. Len(runsAt) :
          (k = Len(runsAt) /\ runsAt[k] >= 2048) =>
              \A i \in 0 .. 2047 :
                  /\ fftInput[i] = runsAt[k] - 2048 + i + 1
                  /\ goertzelInput[i] = runsAt[k] - 2048 + i + 1

\* C14 witness: the buffer has wrapped and the latest analysis ran with the
\* write cursor in the middle of the buffer.
C14_Witness ==
    /\ Len(runsAt) = 3
    /\ runsAt[3] = 3072
    /\ samplesIn > 3072
    /\ writePos > 1024

\* C15 (as claimed): for left edge, bars and right edge that never fall or
\* never rise, the curve value at every pixel column between two adjacent
\* control points lies between the values of these two points (to within
\* 0.001, the rounding of the evaluation).
C15_NoOvershoot ==
    frame.rendered =>
        \A x \in 0 .. (STRIP_WIDTH - 1) : \A i \in 0 .. BARS_PER_DIAL :
            (frame.cpX[i] <= x * Tenth /\ x * Tenth <= frame.cpX[i + 1]) =>
                LET v == evalCurve(BARS_PER_DIAL + 2, frame.cpX, frame.cpY,
                                   frame.cpTangents, x * Tenth)
                IN /\ v >= Min(frame.cpY[i], frame.cpY[i + 1]) - 10
                   /\ v <= Max(frame.cpY[i], frame.cpY[i + 1]) + 10

\* ------------------------------------------------------------------------
\* The peak estimate under a band set that stays the same
\* ------------------------------------------------------------------------

\* The longest run of equal band sets that is followed.
GainRun == 710

\* The run after which the distance of the estimate from its target is
\* compared with the distance at the start of the run.
SettleTicks == GainRun - 10

\* Loud ticks first, which raise the estimate; then one of a silent, a quiet
\* and a loud band set, which stays.
PeakLead == flat(25000)
PeakInputs == {ZeroBins, flat(1000), flat(25000)}

InitPeak == Loaded /\ curveArgs = NoArgs /\ holdFor = GainRun /\ procCap = MaxProcs

NextPeak ==
    \/ registered = {} /\ registerAction("a", 0, FALSE)
    \/ \E t \in timers, f \in PeakInputs :
          /\ ticks + 1 < MaxTicks => f = PeakLead
          /\ tick(t, f, {})

SpecPeak == InitPeak /\ [][NextPeak]_vars

\* min(1.5, 1/p) for a peak p in band-value units.
boostAt(p) == Min(AUTO_GAIN_MAX_BOOST, (Scale * Scale) \div p)

\* What C17 says of a tick that reads a band set of maximum a, for the value
\* goal (in the units of the estimate) that the estimate is to converge to:
\* the estimate moves towards goal without passing it, by at least the
\* fraction AUTO_GAIN_DECAY of its distance, so that a run of SettleTicks
\* ticks at least halves the distance (up to one unit of a band value); and
\* the boost moves towards limit without passing it.
convergesTo(goal, limit) ==
    LET dist == Abs(autoGainPeak - goal)
        boost == autoBoost(autoGainPeak)
    IN /\ autoGainPeak <= goal =>
             (autoGainPeak <= autoGainPeak' /\ autoGainPeak' <= goal)
       /\ autoGainPeak >= goal =>
             (goal <= autoGainPeak' /\ autoGainPeak' <= autoGainPeak)
       /\ Abs(autoGainPeak' - goal) <= dist - Mul(dist, AUTO_GAIN_DECAY)
       /\ heldTicks' >= SettleTicks =>
             2 * Abs(autoGainPeak' - goal) <= Abs(heldFrom' - goal) + Fine
       /\ boost >= limit => (boost >= autoBoost(autoGainPeak')
                              /\ autoBoost(autoGainPeak') >= limit)
       /\ boost <= limit => (boost <= autoBoost(autoGainPeak')
                              /\ autoBoost(autoGainPeak') <= limit)

\* C17 as stated: under a band set of maximum a the estimate converges to a
\* without passing it, and the boost settles at min(1.5, 1/a) (silence has
\* no such boost: there the boost is only required not to move away).
C17_ConvergesToInput ==
    [][ticks' = ticks + 1 =>
        LET a == framePeak(heldRaw')
        IN convergesTo(a * Fine,
                       IF a > 0 THEN boostAt(a) ELSE AUTO_GAIN_MAX_BOOST)
    ]_vars

\* C17, amended: under a band set of maximum a the estimate converges to
\* max(a, 0.08) without passing it, at least halving its distance every
\* SettleTicks ticks, and the boost moves towards min(1.5, 1/max(a, 0.08))
\* without passing it.
C17_ConvergesToFlooredInput ==
    [][ticks' = ticks + 1 =>
        LET target == Max(framePeak(heldRaw'), AUTO_GAIN_MIN_PEAK)
        IN convergesTo(target * Fine, boostAt(target))
    ]_vars

\* A run of SettleTicks ticks at 0.1 that began with the estimate above 0.1:
\* the estimate is still above 0.1, at half the distance or less.
C17_Witness ==
    /\ heldTicks >= SettleTicks
    /\ framePeak(heldRaw) = 1000
    /\ heldFrom > 1000 * Fine + 100 * Fine
    /\ autoGainPeak > 1000 * Fine
    /\ 2 * (autoGainPeak - 1000 * Fine) <= heldFrom - 1000 * Fine

\* ------------------------------------------------------------------------
\* The smoothed bands under silence after loud ticks
\* ------------------------------------------------------------------------

\* The longest run of equal band sets that is followed.
DecayRun == 20

DecayInputs == {ZeroBins, flat(25000), spike(3, 6000)}

InitDecay == Loaded /\ curveArgs = NoArgs /\ holdFor = DecayRun /\ procCap = MaxProcs

NextDecay ==
    \/ registered = {} /\ registerAction("a", 0, FALSE)
    \/ \E t \in timers, f \in DecayInputs : tick(t, f, {})

SpecDecay == InitDecay /\ [][NextDecay]_vars

\* C18: in a tick that reads the all-zero band set, every smoothed band
\* becomes 0.75 times its value, or exactly 0 if that product is below 0.01;
\* a non-zero band gets strictly smaller and a zero band stays zero; and
\* after 17 such ticks in a row every band is zero.
C18_DecayToZero ==
    [][(ticks' = ticks + 1 /\ heldRaw' = ZeroBins) =>
        \A i \in Bins :
            LET s == smoothedBins[i]
                product == (s * SMOOTH_DECAY) \div Scale
            IN /\ smoothedBins'[i] = IF product < SNAP_EPSILON THEN 0 ELSE product
               /\ s > 0 => smoothedBins'[i] < s
               /\ s = 0 => smoothedBins'[i] = 0
               /\ heldTicks' >= 17 => smoothedBins'[i] = 0
    ]_vars

\* Fifteen silent ticks after loud ones, and a band is still not zero.
C18_Witness ==
    /\ heldRaw = ZeroBins
    /\ heldTicks = 15
    /\ \E i \in Bins : smoothedBins[i] > 0

\* ------------------------------------------------------------------------
\* The last-sent snapshot of a consumer
\* ------------------------------------------------------------------------

\* Two consumers on neighbouring columns, registered, removed and registered
\* again between gain changes, theme changes and ticks over silent, quiet
\* and loud band sets, with a consumer that may reject its image.
SnapshotPlacements == {<<"a", 0>>, <<"b", 1>>}
SnapshotInputs == {ZeroBins, flat(134), flat(3000)}
SnapshotRejects == {{}, {"a"}}

NextSnapshot ==
    \/ \E pl \in SnapshotPlacements : registerAction(pl[1], pl[2], FALSE)
    \/ \E id \in Ids : unregisterAction(id)
    \/ \E d \in GainDeltas : adjustGain(d)
    \/ themeCalls < 1 /\ nextTheme
    \/ \E t \in timers, f \in SnapshotInputs, rj \in SnapshotRejects : tick(t, f, rj)

SpecSnapshot == Init /\ [][NextSnapshot]_vars

\* The registration of consumer id in the map regs (id is registered).
regOf(regs, id) == regs[CHOOSE i \in 1 .. Len(regs) : regs[i].id = id]

\* The last-sent snapshot of a registration.
snapshotOf(reg) ==
    [bins |-> reg.lastSent, leftEdge |-> reg.lastLeftEdge,
     rightEdge |-> reg.lastRightEdge]

\* The slice and the edges of column c in the band set bins.
currentOf(bins, c) ==
    [bins |-> [b \in Bars |-> bins[c * BARS_PER_DIAL + b]],
     leftEdge |-> leftEdge(bins, c), rightEdge |-> rightEdge(bins, c)]

\* C19: for a consumer that is registered before and after a step: a tick
\* in which one of its bands or edges moved beyond the threshold makes its
\* snapshot the current slice and edges, whether or not the image is
\* accepted; any other tick, and any step that is neither a tick nor a
\* registration of this same consumer, leaves its snapshot as it was.
C19_SnapshotOnlyWhenDirty ==
    [][\A id \in Ids :
        (\E i \in 1 .. Len(actions) : actions[i].id = id)
        /\ (\E j \in 1 .. Len(actions') : actions'[j].id = id)
        => LET before == regOf(actions, id)
               after == regOf(actions', id)
           IN IF ticks' = ticks + 1
              THEN snapshotOf(after)
                     = (IF movedBeyondThreshold(before, smoothedBins')
                        THEN currentOf(smoothedBins', before.column)
                        ELSE snapshotOf(before))
              ELSE \/ \E c \in Columns : registerAction(id, c, FALSE)
                   \/ snapshotOf(after) = snapshotOf(before)
    ]_vars

\* C19 witness: a tick has just run in which consumer a, holding a snapshot
\* that is not the current one, was not dirty, while consumer b got an image,
\* after a gain change and a theme change.
C19_Witness ==
    /\ lastSource # "none"
    /\ registered = {"a", "b"}
    /\ Len(callsFor(calls, "a")) = 0
    /\ Len(callsFor(calls, "b")) = 1
    /\ regOf(actions, "a").lastLeftEdge # EDGE_SENTINEL
    /\ snapshotOf(regOf(actions, "a")) # currentOf(smoothedBins, 0)
    /\ gain # GAIN_INIT
    /\ themeCalls > 0

\* ------------------------------------------------------------------------
\* The slice and the edges handed to the renderer
\* ------------------------------------------------------------------------

\* Two consumers on every pair of neighbouring columns, over band sets whose
\* neighbouring bands differ.
EdgePlacements == {<<"a", 0>>, <<"a", 2>>, <<"b", 1>>, <<"b", 3>>}
EdgeInputs == {ramp(200), spike(3, 6000), spike(9, Scale)}

NextEdges ==
    \/ \E pl \in EdgePlacements : registerAction(pl[1], pl[2], FALSE)
    \/ \E t \in timers, f \in EdgeInputs : tick(t, f, {})

SpecEdges == Init /\ [][NextEdges]_vars

\* The mean of the two bands on either side of the boundary after column c.
boundaryMean(bins, c) ==
    (bins[c * BARS_PER_DIAL + BARS_PER_DIAL - 1] + bins[(c + 1) * BARS_PER_DIAL]) \div 2

NextEncode == \E c \in CompressedOutputs : encodePNGToDataURI(c)

SpecEncode == Init /\ [][NextEncode]_vars

\* The 64 characters of the standard alphabet and the value of each.
StandardAlphabet ==
    (65 .. 90) \cup (97 .. 122) \cup (48 .. 57) \cup {43, 47}
sextetOf(ch) ==
    IF ch \in 65 .. 90 THEN ch - 65
    ELSE IF ch \in 97 .. 122 THEN ch - 97 + 26
    ELSE IF ch \in 48 .. 57 THEN ch - 48 + 52
    ELSE IF ch = 43 THEN 62
    ELSE IF ch = 47 THEN 63
    ELSE 0 - 1

\* Standard base64 decoding of a text whose length is a multiple of 4 and
\* that ends in pads '=' characters.
b64Decode(text, pads) ==
    [k \in 1 .. (3 * (Len(text) \div 4) - pads) |->
        LET g == 4 * ((k - 1) \div 3)
            v0 == sextetOf(text[g + 1])
            v1 == sextetOf(text[g + 2])
            v2 == sextetOf(text[g + 3])
            v3 == sextetOf(text[g + 4])
        IN IF (k - 1) % 3 = 0 THEN v0 * 4 + v1 \div 16
           ELSE IF (k - 1) % 3 = 1 THEN (v1 % 16) * 16 + v2 \div 4
           ELSE (v2 % 4) * 64 + v3]

\* C21: after a call, the returned string is the 22-character prefix followed
\* by 4 * ceil(pngLen / 3) characters; these are of the standard alphabet,
\* but for two '=' at the end when pngLen mod 3 = 1 and one when it is 2;
\* and decoding them gives the bytes pngOut[0 .. pngLen).
C21_Base64OfContainer ==
    encodes > 0 =>
        LET n == pngLen
            text == SubSeq(dataUri, PREFIX_LEN + 1, Len(dataUri))
            pads == IF n % 3 = 1 THEN 2 ELSE IF n % 3 = 2 THEN 1 ELSE 0
        IN /\ SubSeq(dataUri, 1, PREFIX_LEN) = DATA_URI_PREFIX
           /\ PREFIX_LEN = 22
           /\ Len(text) = 4 * ((n + 2) \div 3)
           /\ \A k \in 1 .. Len(text) :
                 IF k > Len(text) - pads THEN text[k] = 61
                 ELSE text[k] \in StandardAlphabet
           /\ b64Decode(text, pads) = [k \in 1 .. n |-> pngOut[k - 1]]

\* C21 witness: a second call has returned the text of a container whose
\* length leaves the remainder 1, ending in "==", with a '/' in it, while
\* the buffer behind the text still holds a character of the longer text
\* of the first call.
C21_Witness ==
    /\ encodes = 2
    /\ pngLen % 3 = 1
    /\ SubSeq(dataUri, Len(dataUri) - 1, Len(dataUri)) = <<61, 61>>
    /\ \E k \in 1 .. Len(dataUri) : dataUri[k] = 47 /\ k > PREFIX_LEN
    /\ Len(dataUri) \in DOMAIN dataUriBuf
    /\ dataUriBuf[Len(dataUri)] # 0

\* ------------------------------------------------------------------------
\* The first tick after a registration
\* ------------------------------------------------------------------------

\* C22: a registration, of a new id or of one already registered, leaves the
\* consumer with all-zero last-sent bands and both last-sent edges at -1;
\* and in the first tick after it the consumer gets exactly one image,
\* whatever the band values are.
C22_FirstTickSendsImage ==
    [][/\ \A id \in Ids :
            (\E c \in Columns : registerAction(id, c, FALSE)) =>
                snapshotOf(regOf(actions', id))
                  = [bins |-> ZeroSlice, leftEdge |-> 0 - Scale,
                     rightEdge |-> 0 - Scale]
       /\ ticks' = ticks + 1 =>
            \A id \in fresh : Len(callsFor(calls', id)) = 1
    ]_vars

\* C22 witness: every tick so far was silent, and the second of them has just
\* sent an image to a consumer, the only one, that registered after the first.
C22_Witness ==
    /\ ticks = 2
    /\ heldRaw = ZeroBins
    /\ heldTicks = 2
    /\ smoothedBins = ZeroBins
    /\ lastSource # "none"
    /\ Len(actions) = 1
    /\ Len(calls) = 1
    /\ calls[1].bins = ZeroSlice

\* ------------------------------------------------------------------------
\* The distance between the snapshot and the current values
\* ------------------------------------------------------------------------

\* C23: at the end of every tick, each of the five smoothed bands and both
\* edges of every registered consumer's column is within 0.015 of the
\* corresponding last-sent value of that consumer.
C23_SnapshotWithinThreshold ==
    [][ticks' = ticks + 1 =>
        \A i \in 1 .. Len(actions') :
            LET reg == actions'[i]
                now == currentOf(smoothedBins', reg.column)
            IN /\ \A b \in Bars : Abs(now.bins[b] - reg.lastSent[b]) <= 150
               /\ Abs(now.leftEdge - reg.lastLeftEdge) <= 150
               /\ Abs(now.rightEdge - reg.lastRightEdge) <= 150
    ]_vars

\* C23 witness: the third tick in a row on the same quiet band set has just
\* run and sent nothing, and a band of the consumer has drifted away from
\* its last-sent value.
C23_Witness ==
    /\ lastSource # "none"
    /\ heldTicks >= 3
    /\ Len(actions) >= 1
    /\ calls = <<>>
    /\ \E i \in 1 .. Len(actions), b \in Bars :
          /\ actions[i].lastSent[b] > 0
          /\ currentOf(smoothedBins, actions[i].column).bins[b]
               > actions[i].lastSent[b] + 40

\* ------------------------------------------------------------------------
\* The running flag and the capture process
\* ------------------------------------------------------------------------

\* Restarts of the capture process: registration, disposal and process
\* events, with room for a killed process beside the one started after it.
InitRestart == Loaded /\ curveArgs = NoArgs /\ holdFor = 0 /\ procCap = MaxProcs + 1

NextRestart ==
    \/ \E id \in Ids, th \in BOOLEAN : registerAction(id, 0, th)
    \/ \E id \in Ids : unregisterAction(id)
    \/ dispose
    \/ \E t \in timers : tick(t, flat(3000), {})
    \/ \E p \in DOMAIN procs : onExit(p)
    \/ \E p \in DOMAIN procs : onError(p)

SpecRestart == InitRestart /\ [][NextRestart]_vars

\* C24: the running flag is set exactly when the process spawned by the most
\* recent start() has not exited, has not reported an error and has not been
\* stopped.
C24_RunningIffCurrentAlive ==
    running <=> (/\ process # NoProcess
                 /\ process \in DOMAIN procs
                 /\ procs[process] = "alive")

\* ------------------------------------------------------------------------
\* The byte stream and its chunks
\* ------------------------------------------------------------------------

\* One byte stream of the capture process, split into chunks in every way
\* the piece lengths allow.
NextStream ==
    \/ registered = {} /\ registerAction("a", 0, FALSE)
    \/ \E p \in DOMAIN procs, len \in SplitLengths : onDataSplit(p, len)
    \/ \E p \in DOMAIN procs : onExit(p)

SpecStream == Init /\ [][NextStream]_vars

\* The source after the first n bytes of the stream have arrived as one
\* chunk.
inOneChunk(n) ==
    processAudioChunk(streamBytes(0, n),
                      [sampleBuffer |-> ZeroSamples, writePos |-> 0,
                       hopCount |-> 0, fftInput |-> ZeroSamples,
                       goertzelInput |-> ZeroSamples, samplesIn |-> 0,
                       runsAt |-> <<>>])

\* C25: whatever chunks the bytes received so far arrived in, the ring
\* buffer, the write cursor, the hop counter and the number of analyses are
\* those the same bytes leave behind when they arrive as one chunk.
C25_SplitIndependent ==
    \E one \in {inOneChunk(bytesIn)} :
        /\ sampleBuffer = one.sampleBuffer
        /\ writePos = one.writePos
        /\ hopCount = one.hopCount
        /\ Len(runsAt) = Len(one.runsAt)

\* ------------------------------------------------------------------------
\* Temporal smoothing and the raw value
\* ------------------------------------------------------------------------

\* The raw bands the temporal smoothing of the latest tick received: the
\* band set read, after gain, boost and spectral smoothing.
rawOfLastTick == spectralSmooth(applyGain(lastRaw, gain, autoBoost(autoGainPeak)), 0)

\* C26 as stated: after a tick every smoothed band lies between its previous
\* smoothed value and the raw value of that band, and a band whose raw value
\* equals its smoothed value is unchanged.
C26_BetweenPreviousAndRaw ==
    lastSource # "none" =>
        \A i \in Bins :
            /\ Min(lastSmoothed[i], rawOfLastTick[i]) <= smoothedBins[i]
            /\ smoothedBins[i] <= Max(lastSmoothed[i], rawOfLastTick[i])

\* C26, amended: a band whose raw value exceeds its previous smoothed value
\* ends between the two, three quarters of the way up; any other band ends
\* at three quarters of its previous smoothed value, or at 0 when that is
\* below 0.01, whatever its raw value.
C26_AttackBoundedDecayFree ==
    lastSource # "none" =>
        \A i \in Bins :
            \E s \in {lastSmoothed[i]} : \E r \in {rawOfLastTick[i]} :
              \E now \in {smoothedBins[i]} :
                IF r > s
                THEN /\ s <= now /\ now <= r
                     /\ 4 * (now - s) <= 3 * (r - s)
                     /\ 4 * (now - s) > 3 * (r - s) - 4
                ELSE /\ 0 <= now /\ now <= s
                     /\ now > 0 => (4 * now <= 3 * s /\ 4 * now > 3 * s - 4)
                     /\ now = 0 => 3 * s < 4 * 100 + 4

\* C26 witness: a tick in which a band has decayed to below its raw value.
C26_Witness ==
    /\ lastSource # "none"
    /\ \E i \in Bins : /\ rawOfLastTick[i] <= lastSmoothed[i]
                       /\ smoothedBins[i] < rawOfLastTick[i]

\* ------------------------------------------------------------------------
\* A theme change and the images
\* ------------------------------------------------------------------------

\* Theme changes after the first image: one consumer is registered before
\* the first tick, and the theme changes only once a tick has run.
QuietInputs == {ZeroBins, flat(134), flat(3000)}

NextQuiet ==
    \/ \E c \in Columns :
          registered = {} /\ ticks = 0 /\ registerAction("a", c, FALSE)
    \/ ticks >= 1 /\ nextTheme
    \/ \E t \in timers, f \in QuietInputs : tick(t, f, {})

SpecQuiet == Init /\ [][NextQuiet]_vars

\* C27: a nextTheme() call renders nothing, delivers nothing and leaves
\* every registration, its snapshot included, and every other field but the
\* theme index as it was; in a tick, with or without a theme change before
\* it, a consumer none of whose bands and edges is beyond the threshold from
\* its snapshot gets no image, and every image rendered is in the theme
\* current at that tick.
C27_ThemeChangeSendsNothing ==
    [][/\ themeCalls' # themeCalls =>
            /\ calls' = <<>>
            /\ themeIndex' = (themeIndex + 1) % 5
            /\ UNCHANGED <<actions, intervalId, timers, smoothedBins, gain,
                           autoGainPeak, useWasapi, running, process>>
       /\ ticks' = ticks + 1 =>
            /\ \A k \in 1 .. Len(calls') :
                   calls'[k].theme = currentTheme(themeIndex)
            /\ \A i \in 1 .. Len(actions) :
                   ~movedBeyondThreshold(actions[i], smoothedBins')
                   => callsFor(calls', actions[i].id) = <<>>
    ]_vars

\* C27 witness: the second tick has just run, in silence; the consumer got
\* its image in the first tick, under the first theme, the theme has
\* changed since, and the second tick sent it nothing.
C27_Witness ==
    /\ lastSource # "none"
    /\ ticks = 2
    /\ registered = {"a"}
    /\ calls = <<>>
    /\ regOf(actions, "a").lastLeftEdge # EDGE_SENTINEL
    /\ currentTheme(themeIndex) # "neon"
    /\ smoothedBins = ZeroBins

\* ------------------------------------------------------------------------
\* A rejected image and the snapshot
\* ------------------------------------------------------------------------

\* A consumer that rejects every image, beside one that accepts them, over
\* silent, quiet and louder band sets.
RejectPlacements == {<<"a", 0>>, <<"b", 1>>}
RejectInputs == {ZeroBins, flat(134), flat(3000)}

NextReject ==
    \/ \E pl \in RejectPlacements : registerAction(pl[1], pl[2], FALSE)
    \/ \E t \in timers, f \in RejectInputs : tick(t, f, {"a"})

SpecReject == Init /\ [][NextReject]_vars

\* C28: in a tick, a consumer whose image is rejected has its snapshot set
\* to the slice and edges of that image all the same, and a consumer gets an
\* image exactly when a band or edge is beyond the threshold from its
\* snapshot, whether or not its previous image was rejected.
C28_RejectedFrameNotRetried ==
    [][ticks' = ticks + 1 =>
        \A i \in 1 .. Len(actions) :
            \E reg \in {actions[i]} : \E sent \in {callsFor(calls', reg.id)} :
                /\ Len(sent) = (IF movedBeyondThreshold(reg, smoothedBins') THEN 1 ELSE 0)
                /\ (Len(sent) = 1 /\ ~sent[1].accepted) =>
                      /\ snapshotOf(regOf(actions', reg.id))
                           = currentOf(smoothedBins', reg.column)
                      /\ sent[1].bins = regOf(actions', reg.id).lastSent
    ]_vars

\* C28 witness: the second tick has just run; consumer a, registered before
\* the first tick, rejected the image of the first tick and got none in the
\* second, its snapshot holding values it never received, while consumer b
\* got an image.
C28_Witness ==
    /\ lastSource # "none"
    /\ ticks = 2
    /\ registered = {"a", "b"}
    /\ callsFor(calls, "a") = <<>>
    /\ Len(callsFor(calls, "b")) = 1
    /\ regOf(actions, "a").lastLeftEdge # EDGE_SENTINEL
    /\ \E b \in Bars : regOf(actions, "a").lastSent[b] > 0

====
